---- MODULE Spec2Model ----
(***************************************************************************)
(* Transit routing engine of transport-server: the cached graph built by   *)
(* build_graph, the multi-source / multi-sink dijkstra, rebuild_path, the  *)
(* find_route handler, the lifespan start-up loop and the admin editors.   *)
(*                                                                         *)
(* Numbers.  Coordinates are points of one meridian, so haversine is the   *)
(* absolute difference of the two positions; positions and all distances   *)
(* (distance_from_start, walking distances) are integers in metres.  Edge  *)
(* weights and search costs are integers in units of 0.0005, so that 0.6   *)
(* is 1200, a ride of d metres weighs 2*d, a walking transfer of d metres  *)
(* weighs 6*d + 1200 and a boundary walk of d metres costs 3*d.  Durations *)
(* are integers in units of 0.001 minute.  round(x, n) is modelled on      *)
(* these integers; the error of binary floating point is not.              *)
(*                                                                         *)
(* Python's None is the empty tuple, a present value v is <<v>>, which     *)
(* keeps None apart from every integer (0 included).                       *)
(***************************************************************************)
EXTENDS Integers, Sequences, FiniteSets, TLC

VARIABLES
    database,                  \* the relational store
    pc,                  \* where the process is: lifespan, build_graph, serving
    attempt,             \* lifespan's loop variable
    bg,                  \* build_graph's locals: [graph, route_stops], or None
    CACHED_GRAPH,        \* routing_cal.py module globals: None or <<value>>
    CACHED_ROUTE_STOPS,
    CACHED_RS_MAP,
    transit_data,        \* app.state.transit_data: None or the triple
    resp,                \* the last find_route response, None before the first
    built,               \* history: what the completed build produced and from
                         \* which version of the store
    edits,               \* editor requests served so far
    search,              \* the search run on its own (SpecSearch)
    assembly             \* the trip assembly run on its own (SpecAssemble)

vars == <<database, pc, attempt, bg, CACHED_GRAPH, CACHED_ROUTE_STOPS, CACHED_RS_MAP,
          transit_data, resp, built, edits, search, assembly>>

app_vars == <<database, pc, attempt, bg, CACHED_GRAPH, CACHED_ROUTE_STOPS, CACHED_RS_MAP,
              transit_data, resp, built, edits>>

----------------------------------------------------------------------------
(* Optional values, dictionaries, sequences                                *)

None == <<>>
Some(v) == <<v>>
IsNone(x) == x = <<>>
Val(x) == x[1]

EmptyDict == <<>>

\* d[k] = v on a dict
DictSet(d, k, v) == (k :> v) @@ d

Range(s) == {s[i] : i \in DOMAIN s}

RECURSIVE FlatMap(_, _)
FlatMap(F(_), s) == IF s = <<>> THEN <<>> ELSE F(Head(s)) \o FlatMap(F, Tail(s))

Reverse(s) == [i \in 1..Len(s) |-> s[Len(s) + 1 - i]]

\* the elements of a finite set of integers, ascending
RECURSIVE SetToSeq(_)
SetToSeq(S) ==
    IF S = {} THEN <<>>
    ELSE LET m == CHOOSE x \in S : \A y \in S : x <= y
         IN <<m>> \o SetToSeq(S \ {m})

Min(S) == CHOOSE x \in S : \A y \in S : x <= y

----------------------------------------------------------------------------
(* dijkstra (services/routing_cal.py)                                      *)
(* graph: dict node -> list of <<nxt, w>> (a defaultdict(list)); rs_map:   *)
(* node -> record with stop_id; dist, prev: dicts; pq: the heap, a set of  *)
(* <<cost, node>> pairs (no pair is pushed twice: a push follows a strict  *)
(* decrease of dist[node]); best_dist None is float("inf").                *)

\* heapq.heappop: the least <<cost, node>> tuple, compared as tuples
heappop(pq) ==
    CHOOSE t \in pq : \A u \in pq : t[1] < u[1] \/ (t[1] = u[1] /\ t[2] <= u[2])

\* graph[cur] on a defaultdict(list): the list, the empty list for a missing key
defaultdict_get(graph, k) == IF k \in DOMAIN graph THEN graph[k] ELSE <<>>

\* graph[cur] on a defaultdict(list) inserts a missing key
defaultdict_touch(graph, k) == IF k \in DOMAIN graph THEN graph ELSE DictSet(graph, k, <<>>)

\* lines 112-122
dijkstra_init(graph, start_rs_costs, end_stop_costs, rs_map) ==
    [graph |-> graph,
     start_rs_costs |-> start_rs_costs,
     end_stop_costs |-> end_stop_costs,
     rs_map |-> rs_map,
     dist |-> start_rs_costs,
     prev |-> EmptyDict,
     pq |-> {<<start_rs_costs[n], n>> : n \in DOMAIN start_rs_costs},
     best_end |-> None,
     best_dist |-> None]

\* keeps the first destination-stop node popped (a search that stops improving)
dijkstra_dest_check_first(s, cur, cur_dist) ==
    LET stop_id == s.rs_map[cur].stop_id IN
    IF stop_id \in DOMAIN s.end_stop_costs /\ IsNone(s.best_dist)
    THEN [s EXCEPT !.best_dist = Some(cur_dist + s.end_stop_costs[stop_id]),
                   !.best_end = Some(cur)]
    ELSE s

\* lines 130-137
dijkstra_dest_check(s, cur, cur_dist) ==
    LET stop_id == s.rs_map[cur].stop_id IN
    IF stop_id \in DOMAIN s.end_stop_costs
    THEN LET total == cur_dist + s.end_stop_costs[stop_id] IN
         IF IsNone(s.best_dist) \/ total < Val(s.best_dist)
         THEN [s EXCEPT !.best_dist = Some(total), !.best_end = Some(cur)]
         ELSE s
    ELSE s

\* lines 140-144, one edge
dijkstra_relax_edge(s, cur, cur_dist, e) ==
    LET nxt == e[1]
        nd == cur_dist + e[2]
    IN IF nxt \notin DOMAIN s.dist \/ nd < s.dist[nxt]
       THEN [s EXCEPT !.dist = DictSet(@, nxt, nd),
                      !.prev = DictSet(@, nxt, cur),
                      !.pq = @ \cup {<<nd, nxt>>}]
       ELSE s

\* lines 139-144, the for loop over graph[cur]
RECURSIVE dijkstra_relax(_, _, _, _)
dijkstra_relax(s, cur, cur_dist, edges) ==
    IF edges = <<>> THEN s
    ELSE dijkstra_relax(dijkstra_relax_edge(s, cur, cur_dist, Head(edges)),
                        cur, cur_dist, Tail(edges))

\* a loop that takes no popped entry for stale
dijkstra_never_stale(s, cur, cur_dist) == FALSE

\* line 127: cur_dist > dist.get(cur, inf)
dijkstra_stale(s, cur, cur_dist) == cur \in DOMAIN s.dist /\ cur_dist > s.dist[cur]

\* lines 125-144, one iteration of the while loop
dijkstra_iter(s) ==
    LET top == heappop(s.pq)
        cur_dist == top[1]
        cur == top[2]
        popped == [s EXCEPT !.pq = @ \ {top}]
    IN IF dijkstra_stale(s, cur, cur_dist) THEN popped
       ELSE LET checked == dijkstra_dest_check(popped, cur, cur_dist)
                edges == defaultdict_get(s.graph, cur)
                touched == [checked EXCEPT !.graph = defaultdict_touch(@, cur)]
            IN dijkstra_relax(touched, cur, cur_dist, edges)

\* rebuild_path, lines 149-152: one iteration of the while loop on <<path, end_id>>
rebuild_path_init(end_id) == [path |-> <<end_id>>, end_id |-> end_id]

rebuild_path_more(r, prev) == r.end_id \in DOMAIN prev

rebuild_path_step(r, prev) ==
    [path |-> Append(r.path, prev[r.end_id]), end_id |-> prev[r.end_id]]

\* a rebuild that forgets the reversal
rebuild_path_result_unreversed(r) == r.path

\* line 153
rebuild_path_result(r) == Reverse(r.path)

----------------------------------------------------------------------------
(* The store (db/models.py) and the admin editors (routes/route_editer.py) *)
(* db.stops: id -> position; db.routes: id -> [name, ticket_price];        *)
(* db.directions: id -> [route_id, direction]; db.route_stops: id ->       *)
(* [direction_id, stop_id, order, distance_from_start]; next_*: the id     *)
(* sequences of the tables; version: the number of committed changes.      *)
(* Requests naming a stop that does not exist are not drawn (the foreign   *)
(* key refuses them), and storage (gpx) calls are left out.                *)

EmptyDB ==
    [stops |-> EmptyDict, routes |-> EmptyDict, directions |-> EmptyDict,
     route_stops |-> EmptyDict,
     next_stop |-> 1, next_route |-> 1, next_direction |-> 1, next_route_stop |-> 1,
     version |-> 0]

DictDel(d, K) == [k \in DOMAIN d \ K |-> d[k]]

\* route_editer.py create_stops
create_stops(db, data) ==
    LET new == db.next_stop..(db.next_stop + Len(data) - 1) IN
    [db EXCEPT !.stops = [i \in DOMAIN db.stops \cup new |->
                             IF i \in new THEN data[i - db.next_stop + 1] ELSE db.stops[i]],
               !.next_stop = @ + Len(data),
               !.version = @ + 1]

\* route_editer.py edit_stop (404 when the stop does not exist)
edit_stop(db, id, pos) ==
    IF id \notin DOMAIN db.stops THEN db
    ELSE [db EXCEPT !.stops[id] = pos, !.version = @ + 1]

\* route_editer.py delete_stop (404 unknown stop, 400 stop used in a direction)
delete_stop(db, id) ==
    IF id \notin DOMAIN db.stops THEN db
    ELSE IF \E r \in DOMAIN db.route_stops : db.route_stops[r].stop_id = id THEN db
    ELSE [db EXCEPT !.stops = DictDel(@, {id}), !.version = @ + 1]

\* lines 168-175 / 226-233: the ordered stops of a direction, order = index + 1
insert_route_stops(db, direction_id, stops) ==
    LET new == db.next_route_stop..(db.next_route_stop + Len(stops) - 1) IN
    [db EXCEPT !.route_stops = [i \in DOMAIN db.route_stops \cup new |->
                  IF i \in new
                  THEN [direction_id |-> direction_id,
                        stop_id |-> stops[i - db.next_route_stop + 1].stop_id,
                        order |-> i - db.next_route_stop + 1,
                        distance_from_start |->
                            stops[i - db.next_route_stop + 1].distance_from_start]
                  ELSE db.route_stops[i]],
               !.next_route_stop = @ + Len(stops)]

\* route_editer.py create_route
create_route(db, data) ==
    LET named == {r \in DOMAIN db.routes : db.routes[r].name = data.name}
        exists == named # {}
        route_id == IF exists THEN Min(named) ELSE db.next_route
        clash == exists /\ \E d \in DOMAIN db.directions :
                     /\ db.directions[d].route_id = route_id
                     /\ db.directions[d].direction = data.direction
        db1 == IF exists THEN db
               ELSE [db EXCEPT !.routes = DictSet(@, route_id,
                                   [name |-> data.name, ticket_price |-> data.ticket_price]),
                               !.next_route = @ + 1]
        direction_id == db1.next_direction
        db2 == [db1 EXCEPT !.directions = DictSet(@, direction_id,
                                   [route_id |-> route_id, direction |-> data.direction]),
                           !.next_direction = @ + 1]
    IN IF clash THEN db
       ELSE [insert_route_stops(db2, direction_id, data.stops) EXCEPT !.version = @ + 1]

\* route_editer.py update_route (404 when the route or the direction is unknown)
update_route(db, route_id, direction_id, data) ==
    IF route_id \notin DOMAIN db.routes THEN db
    ELSE IF direction_id \notin DOMAIN db.directions
            \/ db.directions[direction_id].route_id # route_id THEN db
    ELSE LET old == {r \in DOMAIN db.route_stops :
                        db.route_stops[r].direction_id = direction_id}
             db1 == [db EXCEPT !.routes[route_id] =
                                   [name |-> data.name, ticket_price |-> data.ticket_price],
                               !.directions[direction_id].direction = data.direction,
                               !.route_stops = DictDel(@, old)]
         IN [insert_route_stops(db1, direction_id, data.stops) EXCEPT !.version = @ + 1]

\* route_editer.py delete_direction: the direction and its stop-assignments go,
\* and the route with its last direction
delete_direction(db, route_id, direction_id) ==
    IF route_id \notin DOMAIN db.routes THEN db
    ELSE IF direction_id \notin DOMAIN db.directions
            \/ db.directions[direction_id].route_id # route_id THEN db
    ELSE LET old == {r \in DOMAIN db.route_stops :
                        db.route_stops[r].direction_id = direction_id}
             remaining == {d \in DOMAIN db.directions \ {direction_id} :
                              db.directions[d].route_id = route_id}
         IN [db EXCEPT !.directions = DictDel(@, {direction_id}),
                       !.route_stops = DictDel(@, old),
                       !.routes = IF remaining = {} THEN DictDel(@, {route_id}) ELSE @,
                       !.version = @ + 1]

----------------------------------------------------------------------------
(* Distances and the spatial lookups (services/routing_cal.py)             *)

\* haversine between two points of one meridian
haversine(p, q) == IF p >= q THEN p - q ELSE q - p

Take(s, n) == SubSeq(s, 1, IF Len(s) < n THEN Len(s) ELSE n)

\* the pairs <<id, dist>> of a set, ascending by dist, then by id
RECURSIVE ByDistance(_)
ByDistance(S) ==
    IF S = {} THEN <<>>
    ELSE LET m == CHOOSE x \in S : \A y \in S :
                      x[2] < y[2] \/ (x[2] = y[2] /\ x[1] <= y[1])
         IN <<m>> \o ByDistance(S \ {m})

\* find_nearby_stops: the stops within max_walk_km, nearest first
find_nearby_stops(stops, p, max_walk_km) ==
    ByDistance({<<id, haversine(stops[id], p)>> :
                   id \in {i \in DOMAIN stops : haversine(stops[i], p) <= max_walk_km}})

\* lines 81-88: the ordered pairs of distinct stops within max_meters, with
\* their distance, as <<stop_a, stop_b, dist>>
RECURSIVE ByPair(_)
ByPair(S) ==
    IF S = {} THEN <<>>
    ELSE LET m == CHOOSE x \in S : \A y \in S :
                      x[1] < y[1] \/ (x[1] = y[1] /\ x[2] <= y[2])
         IN <<m>> \o ByPair(S \ {m})

\* a pair query that gives each pair of stops once, lower id first
nearby_pairs_one_way(stops, max_meters) ==
    ByPair({<<ab[1], ab[2], haversine(stops[ab[1]], stops[ab[2]])>> :
               ab \in {x \in (DOMAIN stops) \X (DOMAIN stops) :
                          x[1] < x[2] /\ haversine(stops[x[1]], stops[x[2]]) <= max_meters}})

nearby_pairs(stops, max_meters) ==
    ByPair({<<ab[1], ab[2], haversine(stops[ab[1]], stops[ab[2]])>> :
               ab \in {x \in (DOMAIN stops) \X (DOMAIN stops) :
                          x[1] # x[2] /\ haversine(stops[x[1]], stops[x[2]]) <= max_meters}})

----------------------------------------------------------------------------
(* build_graph (services/routing_cal.py)                                   *)

WALK_WEIGHT == 6
TRANSFER_PENALTY == 1200
MAX_WALK_TRANSFER_METERS == 300

\* lines 54-61: every stop-assignment with its direction, route and stop
\* loaded, in id order
query_route_stops(db) ==
    LET row(id) ==
          LET rs == db.route_stops[id] IN
          [id |-> id,
           direction_id |-> rs.direction_id,
           stop_id |-> rs.stop_id,
           order |-> rs.order,
           distance_from_start |-> rs.distance_from_start,
           stop |-> [id |-> rs.stop_id, pos |-> db.stops[rs.stop_id]],
           route |-> db.routes[db.directions[rs.direction_id].route_id]]
        ids == SetToSeq(DOMAIN db.route_stops)
    IN [i \in 1..Len(ids) |-> row(ids[i])]

\* .all() on a query with no ORDER BY: the rows come in an order the database
\* chooses; two of them are drawn, by id ascending and by id descending
query_orders(rows) == {rows, Reverse(rows)}

\* the keys of a defaultdict filled by appending in list order: first appearance
RECURSIVE FirstSeen(_, _)
FirstSeen(keys, seen) ==
    IF keys = <<>> THEN <<>>
    ELSE IF Head(keys) \in seen THEN FirstSeen(Tail(keys), seen)
    ELSE <<Head(keys)>> \o FirstSeen(Tail(keys), seen \cup {Head(keys)})

\* a direction's stop-assignments left in the order the query gave them
keep_query_order(rows) == rows

\* list.sort(key=lambda x: x.order): a stable insertion sort
RECURSIVE SortByOrder(_)
SortByOrder(rows) ==
    IF rows = <<>> THEN <<>>
    ELSE LET rest == SortByOrder(Tail(rows))
             x == Head(rows)
             before == SelectSeq(rest, LAMBDA y : y.order < x.order)
             after == SelectSeq(rest, LAMBDA y : y.order >= x.order)
         IN before \o <<x>> \o after

\* lines 66-68
rs_by_dir(route_stops, dir_id) == SelectSeq(route_stops, LAMBDA rs : rs.direction_id = dir_id)
rs_by_stop(route_stops, stop_id) == SelectSeq(route_stops, LAMBDA rs : rs.stop_id = stop_id)

Indices(n) == [i \in 1..n |-> i]

\* lines 70-77: the ride edges, as <<from, to, weight>>
ride_edges(route_stops) ==
    LET dirs == FirstSeen([i \in DOMAIN route_stops |-> route_stops[i].direction_id], {})
        of_dir(dir_id) ==
          LET stops == SortByOrder(rs_by_dir(route_stops, dir_id))
              edge(i) ==
                LET a == stops[i]
                    b == stops[i + 1]
                IN IF ~IsNone(a.distance_from_start) /\ ~IsNone(b.distance_from_start)
                   THEN <<(<<a.id, b.id,
                             2 * (Val(b.distance_from_start) - Val(a.distance_from_start))>>)>>
                   ELSE <<>>
          IN FlatMap(edge, Indices(Len(stops) - 1))
    IN FlatMap(of_dir, dirs)

\* lines 90-95: the walking-transfer edges
walking_edges(route_stops, pairs) ==
    LET of_pair(p) ==
          LET of_a(rs_a) ==
                LET of_b(rs_b) ==
                      IF rs_a.direction_id # rs_b.direction_id
                      THEN <<(<<rs_a.id, rs_b.id, p[3] * WALK_WEIGHT + TRANSFER_PENALTY>>)>>
                      ELSE <<>>
                IN FlatMap(of_b, rs_by_stop(route_stops, p[2]))
          IN FlatMap(of_a, rs_by_stop(route_stops, p[1]))
    IN FlatMap(of_pair, pairs)

\* a same-stop pass that does not compare the directions
same_stop_edges_any_direction(route_stops) ==
    LET stop_ids == FirstSeen([i \in DOMAIN route_stops |-> route_stops[i].stop_id], {})
        of_stop(stop_id) ==
          LET rs_list == rs_by_stop(route_stops, stop_id)
              of_a(a) ==
                LET of_b(b) == <<(<<a.id, b.id, TRANSFER_PENALTY>>)>>
                IN FlatMap(of_b, rs_list)
          IN FlatMap(of_a, rs_list)
    IN FlatMap(of_stop, stop_ids)

\* lines 98-102: the same-stop transfer edges
same_stop_edges(route_stops) ==
    LET stop_ids == FirstSeen([i \in DOMAIN route_stops |-> route_stops[i].stop_id], {})
        of_stop(stop_id) ==
          LET rs_list == rs_by_stop(route_stops, stop_id)
              of_a(a) ==
                LET of_b(b) == IF a.direction_id # b.direction_id
                               THEN <<(<<a.id, b.id, TRANSFER_PENALTY>>)>>
                               ELSE <<>>
                IN FlatMap(of_b, rs_list)
          IN FlatMap(of_a, rs_list)
    IN FlatMap(of_stop, stop_ids)

\* the defaultdict(list) after appending the edges in order
graph_of_edges(edges) ==
    [u \in {edges[i][1] : i \in DOMAIN edges} |->
        LET mine == SelectSeq(edges, LAMBDA e : e[1] = u)
        IN [i \in DOMAIN mine |-> <<mine[i][2], mine[i][3]>>]]

\* lines 63-102: the graph of a snapshot
build_graph_edges(route_stops, pairs) ==
    graph_of_edges(ride_edges(route_stops) \o walking_edges(route_stops, pairs)
                   \o same_stop_edges(route_stops))

\* line 107
build_rs_map(route_stops) ==
    [id \in {route_stops[i].id : i \in DOMAIN route_stops} |->
        LET i == CHOOSE j \in DOMAIN route_stops : route_stops[j].id = id
        IN route_stops[i]]

----------------------------------------------------------------------------
(* find_route (routes/bus_route.py)                                        *)

TOO_FAR_KM == 200000
MAX_WALK_KM == 700
MAX_CANDIDATES == 3
ROUTE_WALK_WEIGHT == 3
MaxSearchSteps == 60

\* a distance check that also rejects the limit itself
too_far_inclusive(rough_dist) == rough_dist >= TOO_FAR_KM

\* line 27
too_far(rough_dist) == rough_dist > TOO_FAR_KM

\* every stop within walking range, with no cap
candidates_uncapped(stops, p) == find_nearby_stops(stops, p, MAX_WALK_KM)

\* lines 30-31: find_nearby_stops(db, lat, lng, max_walk_km=0.7)[:MAX_CANDIDATES]
candidates(stops, p) == Take(find_nearby_stops(stops, p, MAX_WALK_KM), MAX_CANDIDATES)

\* lines 40-47
start_rs_costs_of(start_candidates, route_stops) ==
    LET hits == {h \in {<<route_stops[i].id, route_stops[i].stop_id, c>> :
                           i \in DOMAIN route_stops, c \in Range(start_candidates)} :
                    h[2] = h[3][1]}
    IN [id \in {h[1] : h \in hits} |->
           Min({h[3][2] * ROUTE_WALK_WEIGHT : h \in {x \in hits : x[1] = id}})]

\* line 53
end_stop_costs_of(end_candidates) ==
    [id \in {c[1] : c \in Range(end_candidates)} |->
        LET c == CHOOSE x \in Range(end_candidates) : x[1] = id
        IN c[2] * ROUTE_WALK_WEIGHT]

\* routing_cal.py lines 124-146: the while loop, run until the heap is empty
\* (steps: the iterations left before the run is given up as not ending)
RECURSIVE dijkstra_loop(_, _)
dijkstra_loop(s, steps) ==
    IF s.pq = {} THEN [s EXCEPT !.pq = {}]
    ELSE IF steps = 0 THEN s
    ELSE dijkstra_loop(dijkstra_iter(s), steps - 1)

dijkstra(graph, start_rs_costs, end_stop_costs, rs_map) ==
    dijkstra_loop(dijkstra_init(graph, start_rs_costs, end_stop_costs, rs_map),
                  MaxSearchSteps)

\* routing_cal.py lines 148-153
RECURSIVE rebuild_path_loop(_, _, _)
rebuild_path_loop(r, prev, steps) ==
    IF ~rebuild_path_more(r, prev) \/ steps = 0 THEN r
    ELSE rebuild_path_loop(rebuild_path_step(r, prev), prev, steps - 1)

rebuild_path(end_id, prev) ==
    rebuild_path_result(rebuild_path_loop(rebuild_path_init(end_id), prev, MaxSearchSteps))

\* line 56: "if not end_rs_id" is true of None and of 0
not_end_rs_id(end_rs_id) == IsNone(end_rs_id) \/ end_rs_id = Some(0)

\* a grouping that forgets the segment still open when the path ends
RECURSIVE group_segments_drop_last(_, _, _, _)
group_segments_drop_last(path_ids, rs_map, segments, current) ==
    IF path_ids = <<>> THEN segments
    ELSE LET rs_id == Head(path_ids) IN
         IF current = <<>>
            \/ rs_map[current[Len(current)]].direction_id = rs_map[rs_id].direction_id
         THEN group_segments_drop_last(Tail(path_ids), rs_map, segments, Append(current, rs_id))
         ELSE group_segments_drop_last(Tail(path_ids), rs_map, Append(segments, current),
                                       <<rs_id>>)

\* lines 62-71: the path cut where the direction changes, as lists of node ids
RECURSIVE group_segments(_, _, _, _)
group_segments(path_ids, rs_map, segments, current) ==
    IF path_ids = <<>> THEN Append(segments, current)
    ELSE LET rs_id == Head(path_ids) IN
         IF current = <<>>
            \/ rs_map[current[Len(current)]].direction_id = rs_map[rs_id].direction_id
         THEN group_segments(Tail(path_ids), rs_map, segments, Append(current, rs_id))
         ELSE group_segments(Tail(path_ids), rs_map, Append(segments, current), <<rs_id>>)

\* line 81: abs(seg[-1].distance_from_start - seg[0].distance_from_start) raises
\* TypeError when either is None
seg_dist_raises(seg, rs_map) ==
    \/ IsNone(rs_map[seg[1]].distance_from_start)
    \/ IsNone(rs_map[seg[Len(seg)]].distance_from_start)

\* lines 16-19, per metre and in units of 0.001 minute
WALK_SPEED_MIN_KM == 10
TRANSIT_SPEED_MIN_KM == 2
STOP_PENALTY_MIN == 300
DEFAULT_TICKET_PRICE == 0

\* Python's round(x, n), on an integer x counted in units finer than 10^-n:
\* the nearest multiple of q, a tie going to the even multiple
round(x, q) ==
    LET r == x % q
        lo == x - r
    IN IF 2 * r < q THEN lo
       ELSE IF 2 * r > q THEN lo + q
       ELSE IF (lo \div q) % 2 = 0 THEN lo ELSE lo + q

\* the builtin abs
abs(x) == IF x < 0 THEN 0 - x ELSE x

\* the segments as lists of stop-assignments (line 65: rs = rs_map[rs_id])
segments_of(path_ids, rs_map) ==
    LET ids == group_segments(path_ids, rs_map, <<>>, <<>>)
    IN [i \in DOMAIN ids |-> [j \in DOMAIN ids[i] |-> rs_map[ids[i][j]]]]

\* line 81 (its operands are known)
seg_dist_of(seg) ==
    abs(Val(seg[Len(seg)].distance_from_start) - Val(seg[1].distance_from_start))

\* a duration that leaves the stop penalty out
seg_duration_no_penalty(seg) == seg_dist_of(seg) * TRANSIT_SPEED_MIN_KM

\* line 82
seg_duration_of(seg) ==
    seg_dist_of(seg) * TRANSIT_SPEED_MIN_KM + Len(seg) * STOP_PENALTY_MIN

\* line 83: float(ticket_price or DEFAULT_TICKET_PRICE); None and 0 are falsy
seg_cost_of(seg) ==
    LET ticket_price == seg[1].route.ticket_price
    IN IF IsNone(ticket_price) \/ Val(ticket_price) = 0 THEN DEFAULT_TICKET_PRICE
       ELSE Val(ticket_price)

\* a transfer that takes two stops at one place for one stop
is_same_stop_by_place(prev_stop, curr_stop) == prev_stop.pos = curr_stop.pos

\* line 108
is_same_stop(prev_stop, curr_stop) == prev_stop.id = curr_stop.id

\* lines 92-109: the transfer into a segment from the one before it
transfer_info_of(prev_seg, seg) ==
    LET prev_stop == prev_seg[Len(prev_seg)].stop
        curr_stop == seg[1].stop
        t_dist_km == haversine(prev_stop.pos, curr_stop.pos)
        t_duration == round(t_dist_km * WALK_SPEED_MIN_KM, 100)
    IN [from_stop |-> prev_stop,
        to_stop |-> curr_stop,
        t_dist_km |-> t_dist_km,
        walk_dist_km |-> round(t_dist_km, 1),
        walk_duration_mins |-> t_duration,
        is_same_stop |-> is_same_stop(prev_stop, curr_stop)]

\* lines 79-125: one iteration of the loop over the segments (segment i, from
\* 1), on the totals and the list built so far; line 81 does not raise
segment_step(acc, segments, i) ==
    LET seg == segments[i]
        seg_dist == seg_dist_of(seg)
        seg_duration == seg_duration_of(seg)
        seg_cost == seg_cost_of(seg)
        transfer_info == IF i > 1 THEN Some(transfer_info_of(segments[i - 1], seg)) ELSE None
        t_duration == IF i > 1 THEN Val(transfer_info).walk_duration_mins ELSE 0
        t_dist_km == IF i > 1 THEN Val(transfer_info).t_dist_km ELSE 0
    IN [total_duration_mins |-> acc.total_duration_mins + seg_duration + t_duration,
        total_cost |-> acc.total_cost + seg_cost,
        total_dist_km |-> acc.total_dist_km + seg_dist + t_dist_km,
        route_segments_data |-> Append(acc.route_segments_data,
            [transfer_from_previous |->
                 IF i > 1 THEN Some([k \in DOMAIN Val(transfer_info) \ {"t_dist_km"} |->
                                        Val(transfer_info)[k]])
                 ELSE None,
             route |-> [name |-> seg[1].route.name, ticket_price |-> seg_cost],
             direction |-> [segment_distance_km |-> round(seg_dist, 10),
                            segment_duration_mins |-> round(seg_duration, 100)],
             stops |-> [j \in DOMAIN seg |-> seg[j].stop]])]

\* lines 74-77
segment_totals_init ==
    [total_duration_mins |-> 0, total_cost |-> 0, total_dist_km |-> 0,
     route_segments_data |-> <<>>]

\* lines 79-125, the whole loop from segment i on
RECURSIVE segment_loop(_, _, _)
segment_loop(acc, segments, i) ==
    IF i > Len(segments) THEN acc
    ELSE segment_loop(segment_step(acc, segments, i), segments, i + 1)

\* lines 130-131: next((d for s, d in candidates if s.id == stop_id), 0.0)
walk_km_of(cands, stop_id) ==
    LET hits == SelectSeq(cands, LAMBDA c : c[1] = stop_id)
    IN IF hits = <<>> THEN 0 ELSE hits[1][2]

\* lines 127-150: the trip returned
trip_of(acc, path_ids, rs_map, start_candidates, end_candidates) ==
    LET first_rs == rs_map[path_ids[1]]
        last_rs == rs_map[path_ids[Len(path_ids)]]
        walk_start_km == walk_km_of(start_candidates, first_rs.stop_id)
        walk_end_km == walk_km_of(end_candidates, last_rs.stop_id)
        initial_walk_duration == walk_start_km * WALK_SPEED_MIN_KM
        final_walk_duration == walk_end_km * WALK_SPEED_MIN_KM
        grand_total_duration ==
            acc.total_duration_mins + initial_walk_duration + final_walk_duration
    IN [summary |->
            [total_duration_mins |-> round(grand_total_duration, 1000),
             total_cost |-> acc.total_cost,
             total_walking_distance_km |-> round(walk_start_km + walk_end_km, 10),
             walking_duration_mins |->
                 round(initial_walk_duration + final_walk_duration, 1000),
             from_stop |-> first_rs.stop,
             to_stop |-> last_rs.stop,
             walking_distance_to_start_km |-> round(walk_start_km, 1),
             walking_distance_to_end_km |-> round(walk_end_km, 1)],
        route_segments |-> acc.route_segments_data]

Response(outcome, status, calls) ==
    [outcome |-> outcome, status |-> status, calls |-> calls,
     start_candidates |-> <<>>, end_candidates |-> <<>>,
     start_rs_costs |-> EmptyDict, end_stop_costs |-> EmptyDict,
     end_rs_id |-> None, path_ids |-> <<>>, segments |-> <<>>, trip |-> None]

\* find_route: the response, and the graph object as the call leaves it.
\* td (transit_data) is None or <<graph, route_stops, rs_map>>, each None or <<value>>.
find_route(td, stops, from, to) ==
    LET rough_dist == haversine(from, to)
        start_candidates == candidates(stops, from)
        end_candidates == candidates(stops, to)
        c3 == <<"haversine", "find_nearby_stops", "find_nearby_stops">>
        c4 == Append(c3, "td")
        graph == Val(td[1])
        route_stops == Val(td[2])
        rs_map == Val(td[3])
        start_rs_costs == start_rs_costs_of(start_candidates, route_stops)
        end_stop_costs == end_stop_costs_of(end_candidates)
        found == dijkstra(graph, start_rs_costs, end_stop_costs, rs_map)
        searched(r) == [r EXCEPT !.start_candidates = start_candidates,
                                 !.end_candidates = end_candidates,
                                 !.start_rs_costs = start_rs_costs,
                                 !.end_stop_costs = end_stop_costs,
                                 !.end_rs_id = found.best_end]
        path_ids == rebuild_path(Val(found.best_end), found.prev)
        segments == group_segments(path_ids, rs_map, <<>>, <<>>)
        assembled(r) == [searched(r) EXCEPT !.path_ids = path_ids, !.segments = segments]
        trip == trip_of(segment_loop(segment_totals_init, segments_of(path_ids, rs_map), 1),
                        path_ids, rs_map, start_candidates, end_candidates)
    IN IF too_far(rough_dist)
       THEN [resp |-> Response("too_far", 400, <<"haversine">>), graph |-> None]
       ELSE IF start_candidates = <<>> \/ end_candidates = <<>>
       THEN [resp |-> [Response("no_stops", 404, c3) EXCEPT
                          !.start_candidates = start_candidates,
                          !.end_candidates = end_candidates],
             graph |-> None]
       ELSE IF IsNone(td) \/ \E i \in 1..3 : IsNone(td[i])
       THEN \* unpacking None, iterating None: an unhandled TypeError
            [resp |-> [Response("error", 500, c4) EXCEPT
                          !.start_candidates = start_candidates,
                          !.end_candidates = end_candidates],
             graph |-> None]
       ELSE IF DOMAIN start_rs_costs = {}
       THEN [resp |-> [Response("no_routes", 404, c4) EXCEPT
                          !.start_candidates = start_candidates,
                          !.end_candidates = end_candidates],
             graph |-> Some(graph)]
       ELSE IF found.pq # {}
       THEN [resp |-> searched(Response("hang", 0, Append(c4, "dijkstra"))),
             graph |-> Some(found.graph)]
       ELSE IF not_end_rs_id(found.best_end)
       THEN [resp |-> searched(Response("no_path", 404, Append(c4, "dijkstra"))),
             graph |-> Some(found.graph)]
       ELSE IF \E i \in DOMAIN segments : seg_dist_raises(segments[i], rs_map)
       THEN [resp |-> assembled(Response("error", 500,
                                         c4 \o <<"dijkstra", "rebuild_path">>)),
             graph |-> Some(found.graph)]
       ELSE [resp |-> [assembled(Response("trip", 200,
                                          c4 \o <<"dijkstra", "rebuild_path">>))
                       EXCEPT !.trip = Some(trip)],
             graph |-> Some(found.graph)]

----------------------------------------------------------------------------
(* The process: lifespan (main.py), build_graph's statements, the handlers *)

max_retries == 3
MaxEdits == 1

\* main.py line 52: raise e
after_max_retries == "failed"

\* a build that never stores the node index
store_rs_map_skipped(route_stops) == None

\* routing_cal.py line 107
store_rs_map(route_stops) == Some(build_rs_map(route_stops))

\* main.py lines 29-33: create_all succeeds, a session is opened
LifespanCreateAll ==
    /\ pc = "create_all"
    /\ pc' = "build_graph"
    /\ UNCHANGED <<database, attempt, bg, CACHED_GRAPH, CACHED_ROUTE_STOPS, CACHED_RS_MAP,
                   transit_data, resp, built, edits, search, assembly>>

\* main.py line 30 raises (the database is not up)
LifespanCreateAllFails ==
    /\ pc = "create_all"
    /\ pc' = "except"
    /\ UNCHANGED <<database, attempt, bg, CACHED_GRAPH, CACHED_ROUTE_STOPS, CACHED_RS_MAP,
                   transit_data, resp, built, edits, search, assembly>>

\* routing_cal.py lines 45-46 and main.py line 36: the cache is returned
BuildGraphCached ==
    /\ pc = "build_graph"
    /\ ~IsNone(CACHED_GRAPH)
    /\ transit_data' = <<CACHED_GRAPH, CACHED_ROUTE_STOPS, CACHED_RS_MAP>>
    /\ pc' = "close"
    /\ UNCHANGED <<database, attempt, bg, CACHED_GRAPH, CACHED_ROUTE_STOPS, CACHED_RS_MAP,
                   resp, built, edits, search, assembly>>

\* routing_cal.py lines 49-61: a fresh graph, the snapshot is read
BuildGraphQuery ==
    /\ pc = "build_graph"
    /\ IsNone(CACHED_GRAPH)
    /\ \E route_stops \in query_orders(query_route_stops(database)) :
          bg' = Some([graph |-> EmptyDict, route_stops |-> route_stops,
                      version |-> database.version])
    /\ pc' = "bg_edges"
    /\ UNCHANGED <<database, attempt, CACHED_GRAPH, CACHED_ROUTE_STOPS, CACHED_RS_MAP,
                   transit_data, resp, built, edits, search, assembly>>

\* routing_cal.py lines 54-61 raise; main.py line 41 closes the session
BuildGraphQueryFails ==
    /\ pc = "build_graph"
    /\ IsNone(CACHED_GRAPH)
    /\ pc' = "except"
    /\ UNCHANGED <<database, attempt, bg, CACHED_GRAPH, CACHED_ROUTE_STOPS, CACHED_RS_MAP,
                   transit_data, resp, built, edits, search, assembly>>

\* routing_cal.py lines 63-102: the three passes, the pair query included
BuildGraphEdges ==
    /\ pc = "bg_edges"
    /\ bg' = Some([Val(bg) EXCEPT !.graph =
                      build_graph_edges(Val(bg).route_stops,
                                        nearby_pairs(database.stops, MAX_WALK_TRANSFER_METERS))])
    /\ pc' = "bg_store_graph"
    /\ UNCHANGED <<database, attempt, CACHED_GRAPH, CACHED_ROUTE_STOPS, CACHED_RS_MAP,
                   transit_data, resp, built, edits, search, assembly>>

\* routing_cal.py line 88 raises: the locals are dropped
BuildGraphPairsFails ==
    /\ pc = "bg_edges"
    /\ bg' = None
    /\ pc' = "except"
    /\ UNCHANGED <<database, attempt, CACHED_GRAPH, CACHED_ROUTE_STOPS, CACHED_RS_MAP,
                   transit_data, resp, built, edits, search, assembly>>

\* routing_cal.py line 105
BuildGraphStoreGraph ==
    /\ pc = "bg_store_graph"
    /\ CACHED_GRAPH' = Some(Val(bg).graph)
    /\ built' = Some([graph |-> Val(bg).graph, route_stops |-> Val(bg).route_stops,
                      version |-> Val(bg).version])
    /\ pc' = "bg_store_route_stops"
    /\ UNCHANGED <<database, attempt, bg, CACHED_ROUTE_STOPS, CACHED_RS_MAP,
                   transit_data, resp, edits, search, assembly>>

\* routing_cal.py line 106
BuildGraphStoreRouteStops ==
    /\ pc = "bg_store_route_stops"
    /\ CACHED_ROUTE_STOPS' = Some(Val(bg).route_stops)
    /\ pc' = "bg_store_rs_map"
    /\ UNCHANGED <<database, attempt, bg, CACHED_GRAPH, CACHED_RS_MAP,
                   transit_data, resp, built, edits, search, assembly>>

\* routing_cal.py line 107
BuildGraphStoreRsMap ==
    /\ pc = "bg_store_rs_map"
    /\ CACHED_RS_MAP' = store_rs_map(Val(bg).route_stops)
    /\ pc' = "bg_return"
    /\ UNCHANGED <<database, attempt, bg, CACHED_GRAPH, CACHED_ROUTE_STOPS,
                   transit_data, resp, built, edits, search, assembly>>

\* routing_cal.py line 109 and main.py lines 36-39
BuildGraphReturn ==
    /\ pc = "bg_return"
    /\ transit_data' = <<CACHED_GRAPH, CACHED_ROUTE_STOPS, CACHED_RS_MAP>>
    /\ bg' = None
    /\ pc' = "close"
    /\ UNCHANGED <<database, attempt, CACHED_GRAPH, CACHED_ROUTE_STOPS, CACHED_RS_MAP,
                   resp, built, edits, search, assembly>>

\* main.py line 41 after the break, then line 54: the application serves
LifespanClose ==
    /\ pc = "close"
    /\ pc' = "serving"
    /\ attempt' = 0
    /\ UNCHANGED <<database, bg, CACHED_GRAPH, CACHED_ROUTE_STOPS, CACHED_RS_MAP,
                   transit_data, resp, built, edits, search, assembly>>

\* main.py line 41 raises
LifespanCloseFails ==
    /\ pc = "close"
    /\ pc' = "except"
    /\ UNCHANGED <<database, attempt, bg, CACHED_GRAPH, CACHED_ROUTE_STOPS, CACHED_RS_MAP,
                   transit_data, resp, built, edits, search, assembly>>

\* main.py lines 43-47: sleep, next attempt
LifespanRetry ==
    /\ pc = "except"
    /\ attempt < max_retries
    /\ attempt' = attempt + 1
    /\ pc' = "create_all"
    /\ UNCHANGED <<database, bg, CACHED_GRAPH, CACHED_ROUTE_STOPS, CACHED_RS_MAP,
                   transit_data, resp, built, edits, search, assembly>>

\* main.py lines 48-52
LifespanRaise ==
    /\ pc = "except"
    /\ ~(attempt < max_retries)
    /\ pc' = after_max_retries
    /\ UNCHANGED <<database, attempt, bg, CACHED_GRAPH, CACHED_ROUTE_STOPS, CACHED_RS_MAP,
                   transit_data, resp, built, edits, search, assembly>>

\* the graph object of transit_data is the object CACHED_GRAPH names
same_graph_object == ~IsNone(transit_data) /\ ~IsNone(CACHED_GRAPH)
                     /\ transit_data[1] = CACHED_GRAPH

\* bus_route.py find_route, the whole handler.  snapshot / store: history,
\* the version the graph was built from and the version of the store now.
FindRoute(from, to) ==
    /\ pc = "serving"
    /\ LET out == find_route(transit_data, database.stops, from, to) IN
       /\ resp' = Some(out.resp @@
                       [from |-> from, to |-> to,
                        snapshot |-> IF IsNone(built) THEN None ELSE Some(Val(built).version),
                        store |-> database.version])
       /\ IF IsNone(out.graph)
          THEN UNCHANGED <<transit_data, CACHED_GRAPH>>
          ELSE /\ transit_data' = [transit_data EXCEPT ![1] = out.graph]
               /\ CACHED_GRAPH' = IF same_graph_object THEN out.graph ELSE CACHED_GRAPH
    /\ UNCHANGED <<database, pc, attempt, bg, CACHED_ROUTE_STOPS, CACHED_RS_MAP, built,
                   edits, search, assembly>>

Edit(new_db) ==
    /\ pc = "serving"
    /\ edits < MaxEdits
    /\ database' = new_db
    /\ edits' = edits + 1
    /\ UNCHANGED <<pc, attempt, bg, CACHED_GRAPH, CACHED_ROUTE_STOPS, CACHED_RS_MAP,
                   transit_data, resp, built, search, assembly>>

\* the requests drawn: five stops on the meridian, at 0, 200 m, 500 m, 700 m
\* and 4 km; routes over them; queries from two origins to four destinations
StopLayout == <<0, 200, 500, 700, 4000>>

DistancePatterns(n) ==
    IF n = 1 THEN {<<None>>, <<Some(0)>>}
    ELSE IF n = 3 THEN {<<Some(0), None, Some(400)>>}
    ELSE {<<Some(0), Some(400)>>, <<Some(400), Some(0)>>, <<None, Some(400)>>,
          <<Some(0), None>>}

StopLists(stop_seqs) ==
    {[i \in 1..Len(q) |-> [stop_id |-> q[i], distance_from_start |-> d[i]]] :
        <<q, d>> \in {x \in stop_seqs \X UNION {DistancePatterns(n) : n \in 1..3} :
                         Len(x[1]) = Len(x[2])}}

RouteData(names, ticket_price, directions, stop_lists) ==
    {[name |-> n, ticket_price |-> ticket_price, direction |-> d, stops |-> st] :
        n \in names, d \in directions, st \in stop_lists}

\* a direction that calls at stop 2 twice in a row (the store has no
\* uniqueness constraint on the stops of a direction)
CallsTwice ==
    <<[stop_id |-> 2, distance_from_start |-> Some(0)],
      [stop_id |-> 2, distance_from_start |-> Some(400)]>>

SeedA == RouteData({"A"}, Some(10), {"out"},
                   StopLists({<<1, 5>>, <<1, 3>>, <<2>>, <<1, 2, 3>>}) \cup {CallsTwice})
SeedB == RouteData({"B"}, None, {"out"}, StopLists({<<3, 5>>, <<4, 5>>, <<2, 5>>}))

\* the stores the process may start on: the stops, then route A or none, then
\* route B or none, each made by the editors
InitDBs ==
    LET d0 == create_stops(EmptyDB, StopLayout)
        with_a == {d0} \cup {create_route(d0, a) : a \in SeedA}
    IN with_a \cup {create_route(d, b) : d \in with_a, b \in SeedB}

EditStopLists ==
    {<<[stop_id |-> 5, distance_from_start |-> Some(0)],
       [stop_id |-> 1, distance_from_start |-> Some(400)]>>,
     <<[stop_id |-> 5, distance_from_start |-> None]>>}

QueryFrom == {0, 2000}
QueryTo == {700, 4700, 200000, 200001}

CreateStops ==
    \E data \in {<<100>>, <<4100, 4100>>} : Edit(create_stops(database, data))

EditStop ==
    \E id \in DOMAIN database.stops \cap {1, 5}, pos \in {2000} :
        Edit(edit_stop(database, id, pos))

DeleteStop ==
    \E id \in DOMAIN database.stops :
        /\ delete_stop(database, id) # database
        /\ Edit(delete_stop(database, id))

CreateRoute ==
    \E data \in RouteData({"A", "C"}, Some(5), {"out", "back"}, EditStopLists) :
        /\ create_route(database, data) # database
        /\ Edit(create_route(database, data))

UpdateRoute ==
    \E direction_id \in DOMAIN database.directions,
       data \in RouteData({"A"}, Some(20), {"out"}, EditStopLists) :
        Edit(update_route(database, database.directions[direction_id].route_id, direction_id, data))

DeleteDirection ==
    \E direction_id \in DOMAIN database.directions :
        Edit(delete_direction(database, database.directions[direction_id].route_id, direction_id))

SearchOff == [phase |-> "off"]
AssemblyOff == [phase |-> "off"]

Init ==
    /\ database \in InitDBs
    /\ pc = "create_all"
    /\ attempt = 1
    /\ bg = None
    /\ CACHED_GRAPH = None
    /\ CACHED_ROUTE_STOPS = None
    /\ CACHED_RS_MAP = None
    /\ transit_data = None
    /\ resp = None
    /\ built = None
    /\ edits = 0
    /\ search = SearchOff
    /\ assembly = AssemblyOff

Next ==
    \/ LifespanCreateAll
    \/ LifespanCreateAllFails
    \/ BuildGraphCached
    \/ BuildGraphQuery
    \/ BuildGraphQueryFails
    \/ BuildGraphEdges
    \/ BuildGraphPairsFails
    \/ BuildGraphStoreGraph
    \/ BuildGraphStoreRouteStops
    \/ BuildGraphStoreRsMap
    \/ BuildGraphReturn
    \/ LifespanClose
    \/ LifespanCloseFails
    \/ LifespanRetry
    \/ LifespanRaise
    \/ \E from \in QueryFrom, to \in QueryTo : FindRoute(from, to)
    \/ CreateStops
    \/ EditStop
    \/ DeleteStop
    \/ CreateRoute
    \/ UpdateRoute
    \/ DeleteDirection

Spec == Init /\ [][Next]_vars

----------------------------------------------------------------------------
(* The search on hand-built graphs: dijkstra and rebuild_path as pure      *)
(* functions, one action per loop iteration.                               *)

MaxEdges == 3
MaxWeight == 3
MaxInitCost == 2
MaxEndCost == 4
MaxPathLen == 5

SearchNodes == {1, 2, 3}
SearchStops == {1, 2}
\* nodes 2 and 3 are two stop-assignments of stop 2
SearchRsMap == [n \in SearchNodes |-> [stop_id |-> IF n = 1 THEN 1 ELSE 2]]
SearchWeights == {0, 1, MaxWeight}
SearchEdges == {<<u, v, w>> : u \in SearchNodes, v \in SearchNodes, w \in SearchWeights}
                 \ {<<u, u, w>> : u \in SearchNodes, w \in SearchWeights}

\* the adjacency list of u: its edges, heavier first, then by neighbour
RECURSIVE AdjList(_)
AdjList(E) ==
    IF E = {} THEN <<>>
    ELSE LET e == CHOOSE x \in E : \A y \in E :
                      x[3] > y[3] \/ (x[3] = y[3] /\ x[2] <= y[2])
         IN <<(<<e[2], e[3]>>)>> \o AdjList(E \ {e})

\* the defaultdict build_graph would hold: a key for every node with an edge
GraphOf(E) ==
    [u \in {e[1] : e \in E} |-> AdjList({e \in E : e[1] = u})]

SearchEdgeSets == {E \in SUBSET SearchEdges : Cardinality(E) <= MaxEdges}

SearchStarts ==
    {f \in UNION {[S -> {0, MaxInitCost}] : S \in SUBSET SearchNodes} :
        Cardinality(DOMAIN f) \in {1, 2}}

SearchEnds == UNION {[S -> {0, MaxEndCost}] : S \in SUBSET SearchStops}

AppOff ==
    /\ database = EmptyDB
    /\ pc = "off"
    /\ attempt = 0
    /\ bg = None
    /\ CACHED_GRAPH = None
    /\ CACHED_ROUTE_STOPS = None
    /\ CACHED_RS_MAP = None
    /\ transit_data = None
    /\ resp = None
    /\ built = None
    /\ edits = 0

InitSearch ==
    /\ AppOff
    /\ assembly = AssemblyOff
    /\ \E E \in SearchEdgeSets, st \in SearchStarts, en \in SearchEnds :
        search = [phase |-> "call",
                  edges |-> E,
                  s |-> [graph |-> GraphOf(E), start_rs_costs |-> st,
                         end_stop_costs |-> en, rs_map |-> SearchRsMap],
                  r |-> None,
                  path |-> None,
                  first_total |-> None,
                  \* history: how often each node was expanded, and how many
                  \* popped entries were skipped
                  expanded |-> [n \in SearchNodes |-> 0],
                  skipped |-> 0]

\* the call of dijkstra: lines 112-122
DijkstraStart ==
    /\ UNCHANGED <<app_vars, assembly>>
    /\ search.phase = "call"
    /\ search' = [search EXCEPT
                    !.phase = "loop",
                    !.s = dijkstra_init(search.s.graph, search.s.start_rs_costs,
                                        search.s.end_stop_costs, search.s.rs_map)]

\* while pq: one iteration
DijkstraLoop ==
    /\ UNCHANGED <<app_vars, assembly>>
    /\ search.phase = "loop"
    /\ search.s.pq # {}
    /\ search' = [search EXCEPT
                    !.s = dijkstra_iter(search.s),
                    \* history: the total of the first destination-stop node popped
                    !.first_total = IF IsNone(@) THEN dijkstra_iter(search.s).best_dist
                                    ELSE @,
                    !.expanded =
                        LET top == heappop(search.s.pq)
                        IN IF dijkstra_stale(search.s, top[2], top[1]) THEN @
                           ELSE [@ EXCEPT ![top[2]] = @ + 1],
                    !.skipped =
                        LET top == heappop(search.s.pq)
                        IN IF dijkstra_stale(search.s, top[2], top[1]) THEN @ + 1 ELSE @]

\* line 146: return best_end, prev
DijkstraReturn ==
    /\ UNCHANGED <<app_vars, assembly>>
    /\ search.phase = "loop"
    /\ search.s.pq = {}
    /\ search' = [search EXCEPT !.phase = "done"]

\* rebuild_path(best_end, prev), line 149
RebuildStart ==
    /\ UNCHANGED <<app_vars, assembly>>
    /\ search.phase = "done"
    /\ ~IsNone(search.s.best_end)
    /\ search' = [search EXCEPT !.phase = "rebuild",
                                !.r = rebuild_path_init(Val(search.s.best_end))]

\* lines 150-152
RebuildLoop ==
    /\ UNCHANGED <<app_vars, assembly>>
    /\ search.phase = "rebuild"
    /\ rebuild_path_more(search.r, search.s.prev)
    /\ Len(search.r.path) < MaxPathLen
    /\ search' = [search EXCEPT !.r = rebuild_path_step(search.r, search.s.prev)]

\* line 153
RebuildReturn ==
    /\ UNCHANGED <<app_vars, assembly>>
    /\ search.phase = "rebuild"
    /\ ~rebuild_path_more(search.r, search.s.prev)
    /\ search' = [search EXCEPT !.phase = "rebuilt",
                                !.path = Some(rebuild_path_result(search.r))]

NextSearch ==
    \/ DijkstraStart
    \/ DijkstraLoop
    \/ DijkstraReturn
    \/ RebuildStart
    \/ RebuildLoop
    \/ RebuildReturn

SpecSearch == InitSearch /\ [][NextSearch]_vars

\* the interpreter keeps running the function: a step that can be taken is
\* taken
SpecSearchFair == SpecSearch /\ WF_vars(NextSearch)

----------------------------------------------------------------------------
(* The trip assembly on hand-built paths: lines 61-150 of find_route as a  *)
(* pure function of the path, one action per loop iteration.               *)

MaxAssemblyPath == 3

\* three stops: 1 and 2 at one place, 3 at 123 m from them
AssemblyStops == <<0, 0, 123>>

\* direction 1 is of route A (ticket price 10), direction 2 of route B (none)
AssemblyRoutes ==
    <<[name |-> "A", ticket_price |-> Some(10)], [name |-> "B", ticket_price |-> None]>>

\* distance_from_start: unknown, 0, 1.234 km, 5 km
AssemblyDistances == {None, Some(0), Some(1234), Some(5000)}

\* the stop-assignment with this id, as query_route_stops loads it
AssemblyNode(id, direction_id, stop_id, distance_from_start) ==
    [id |-> id,
     direction_id |-> direction_id,
     stop_id |-> stop_id,
     order |-> id,
     distance_from_start |-> distance_from_start,
     stop |-> [id |-> stop_id, pos |-> AssemblyStops[stop_id]],
     route |-> AssemblyRoutes[direction_id]]

\* the node indexes of the paths 1, 2, ..., n
AssemblyRsMaps ==
    UNION {{[i \in 1..n |-> AssemblyNode(i, f[i][1], f[i][2], f[i][3])] :
               f \in [1..n -> (DOMAIN AssemblyRoutes) \X (DOMAIN AssemblyStops)
                                  \X AssemblyDistances]} :
           n \in 1..MaxAssemblyPath}

SearchAndAppOff ==
    /\ AppOff
    /\ search = SearchOff

InitAssemble ==
    /\ SearchAndAppOff
    /\ \E rs_map \in AssemblyRsMaps :
        assembly = [phase |-> "path",
                    rs_map |-> rs_map,
                    path_ids |-> [i \in DOMAIN rs_map |-> i],
                    \* the walk to the first stop is 150 m, to the destination 0
                    start_candidates |-> <<(<<rs_map[1].stop_id, 150>>)>>,
                    end_candidates |-> <<(<<rs_map[Len(rs_map)].stop_id, 0>>)>>,
                    segment_ids |-> <<>>,
                    segments |-> <<>>,
                    i |-> 0,
                    acc |-> segment_totals_init,
                    trip |-> None]

\* lines 61-71: the path is cut into segments
AssembleGroup ==
    /\ UNCHANGED <<app_vars, search>>
    /\ assembly.phase = "path"
    /\ assembly' = [assembly EXCEPT
                      !.phase = "segments",
                      !.segment_ids = group_segments(assembly.path_ids, assembly.rs_map,
                                                     <<>>, <<>>),
                      !.segments = segments_of(assembly.path_ids, assembly.rs_map),
                      !.i = 1]

\* lines 79-125: one iteration of the loop
AssembleSegment ==
    /\ UNCHANGED <<app_vars, search>>
    /\ assembly.phase = "segments"
    /\ assembly.i <= Len(assembly.segments)
    /\ ~seg_dist_raises(assembly.segment_ids[assembly.i], assembly.rs_map)
    /\ assembly' = [assembly EXCEPT
                      !.acc = segment_step(assembly.acc, assembly.segments, assembly.i),
                      !.i = @ + 1]

\* line 81 raises TypeError: the request ends with a 500
AssembleRaises ==
    /\ UNCHANGED <<app_vars, search>>
    /\ assembly.phase = "segments"
    /\ assembly.i <= Len(assembly.segments)
    /\ seg_dist_raises(assembly.segment_ids[assembly.i], assembly.rs_map)
    /\ assembly' = [assembly EXCEPT !.phase = "raised"]

\* lines 127-150
AssembleReturn ==
    /\ UNCHANGED <<app_vars, search>>
    /\ assembly.phase = "segments"
    /\ assembly.i > Len(assembly.segments)
    /\ assembly' = [assembly EXCEPT
                      !.phase = "returned",
                      !.trip = Some(trip_of(assembly.acc, assembly.path_ids, assembly.rs_map,
                                            assembly.start_candidates,
                                            assembly.end_candidates))]

NextAssemble ==
    \/ AssembleGroup
    \/ AssembleSegment
    \/ AssembleRaises
    \/ AssembleReturn

SpecAssemble == InitAssemble /\ [][NextAssemble]_vars

----------------------------------------------------------------------------
(* What the search is measured against: cheapest costs by relaxation to a  *)
(* fixpoint (Bellman-Ford), independent of the heap and of the visit order *)

EdgesOfGraph(g) == UNION {{<<u, e[1], e[2]>> : e \in Range(g[u])} : u \in DOMAIN g}

NodesOfGraph(g) == DOMAIN g \cup {e[2] : e \in EdgesOfGraph(g)}

\* one round of relaxation of every edge
RelaxAll(E, D) ==
    LET cand(v) == {D[v] : x \in {v} \cap DOMAIN D}
                     \cup {D[e[1]] + e[3] : e \in {x \in E : x[2] = v /\ x[1] \in DOMAIN D}}
        reached == {v \in DOMAIN D \cup {e[2] : e \in E} : cand(v) # {}}
    IN [v \in reached |-> Min(cand(v))]

RECURSIVE RelaxRounds(_, _, _)
RelaxRounds(E, D, n) == IF n = 0 THEN D ELSE RelaxRounds(E, RelaxAll(E, D), n - 1)

\* node -> cheapest cost of a path from any start node, its initial cost included
ShortestDist(g, start_rs_costs) ==
    RelaxRounds(EdgesOfGraph(g), start_rs_costs,
                Cardinality(NodesOfGraph(g) \cup DOMAIN start_rs_costs))

\* the reachable nodes whose stop is a destination stop (D: ShortestDist)
ReachedDests(D, end_stop_costs, rs_map) ==
    {v \in DOMAIN D : rs_map[v].stop_id \in DOMAIN end_stop_costs}

\* cheapest cost to v plus the remaining cost of v's stop
TotalOf(D, end_stop_costs, rs_map, v) == D[v] + end_stop_costs[rs_map[v].stop_id]

MinTotal(D, end_stop_costs, rs_map) ==
    Min({TotalOf(D, end_stop_costs, rs_map, v) : v \in ReachedDests(D, end_stop_costs, rs_map)})

NonNegative(g) == \A e \in EdgesOfGraph(g) : e[3] >= 0

\* the cheapest of the parallel edges u -> v
EdgeWeight(g, u, v) == Min({e[3] : e \in {x \in EdgesOfGraph(g) : x[1] = u /\ x[2] = v}})

IsPath(g, p) ==
    \A i \in 1..(Len(p) - 1) : \E e \in EdgesOfGraph(g) : e[1] = p[i] /\ e[2] = p[i + 1]

RECURSIVE PathWeight(_, _)
PathWeight(g, p) ==
    IF Len(p) <= 1 THEN 0
    ELSE EdgeWeight(g, p[1], p[2]) + PathWeight(g, Tail(p))

NoDuplicates(p) == \A i, j \in DOMAIN p : p[i] = p[j] => i = j

----------------------------------------------------------------------------
(* Claims about the search (SpecSearch)                                    *)

SearchReturned == search.phase \in {"done", "rebuild", "rebuilt"}

\* C1: on a graph with non-negative weights the node dijkstra returns is a
\* reachable node at a destination stop whose (cheapest path cost from a start
\* node, initial cost included) + (remaining cost of its stop) is the minimum
\* over all such nodes, and best_dist is that minimum: the search runs on
\* past the first destination-stop node popped, and a cheaper total found
\* later replaces a more expensive one found earlier.
C1_DijkstraMinimum ==
    LET s == search.s
        D == ShortestDist(s.graph, s.start_rs_costs)
        dests == ReachedDests(D, s.end_stop_costs, s.rs_map)
        best == MinTotal(D, s.end_stop_costs, s.rs_map)
    IN (SearchReturned /\ NonNegative(s.graph) /\ dests # {}) =>
          /\ ~IsNone(s.best_end)
          /\ Val(s.best_end) \in dests
          /\ TotalOf(D, s.end_stop_costs, s.rs_map, Val(s.best_end)) = best
          /\ s.best_dist = Some(best)

\* the first destination-stop node popped was more expensive than the result
C1_Witness ==
    /\ search.phase = "done"
    /\ ~IsNone(search.first_total)
    /\ Val(search.first_total) > Val(search.s.best_dist)

\* C2: rebuild_path(best_end, prev) terminates (the chain of predecessors never
\* repeats a node) and yields a path from a candidate start node to best_end
\* along edges of the graph, whose initial cost + edge weights + remaining cost
\* of the destination stop is the minimum total of the search.
C2_RebuildPath ==
    LET s == search.s IN
    /\ search.phase = "rebuild" => NoDuplicates(search.r.path)
    /\ search.phase = "rebuilt" =>
         LET p == Val(search.path) IN
         /\ p[1] \in DOMAIN s.start_rs_costs
         /\ p[Len(p)] = Val(s.best_end)
         /\ IsPath(s.graph, p)
         /\ s.start_rs_costs[p[1]] + PathWeight(s.graph, p)
              + s.end_stop_costs[s.rs_map[p[Len(p)]].stop_id]
            = MinTotal(ShortestDist(s.graph, s.start_rs_costs), s.end_stop_costs, s.rs_map)

\* a rebuilt path of two edges that starts with a positive initial cost
C2_Witness ==
    /\ search.phase = "rebuilt"
    /\ Len(Val(search.path)) = 3
    /\ search.s.start_rs_costs[Val(search.path)[1]] > 0

----------------------------------------------------------------------------
(* Claims about the running system (Spec)                                  *)

\* the last response, and what the query that produced it worked on
Answered == ~IsNone(resp)
Ran(call) == Answered /\ call \in Range(Val(resp).calls)
ServedGraph == Val(transit_data[1])
ServedRsMap == Val(transit_data[3])

\* the destination-candidate nodes the last query could reach from its start
\* nodes, in the graph it searched
ReachableDests ==
    ReachedDests(ShortestDist(ServedGraph, Val(resp).start_rs_costs),
                 Val(resp).end_stop_costs, ServedRsMap)

\* C3: a query that reaches the search signals "no path found" if and only if
\* no node at a destination-candidate stop is reachable from a candidate start
\* node, and returns a trip whenever one is reachable.
C3_NoPathIffUnreachable ==
    Ran("dijkstra") =>
        /\ (Val(resp).outcome = "no_path") <=> (ReachableDests = {})
        /\ (ReachableDests # {}) => Val(resp).outcome = "trip"

\* C4: no query is answered from a snapshot older than the store: the version
\* of the store the served graph was built from is the version of the store
\* at the time of the query.
C4_NoStaleSnapshot ==
    Ran("td") => Val(resp).snapshot = Some(Val(resp).store)

\* where no build_graph call is between its statements
BuildAtRest == pc \notin {"bg_store_route_stops", "bg_store_rs_map", "bg_return"}

CacheEmpty ==
    IsNone(CACHED_GRAPH) /\ IsNone(CACHED_ROUTE_STOPS) /\ IsNone(CACHED_RS_MAP)

\* the three cached values are set and come from the one snapshot of the
\* completed build
CacheComplete ==
    /\ ~IsNone(CACHED_GRAPH) /\ ~IsNone(CACHED_ROUTE_STOPS) /\ ~IsNone(CACHED_RS_MAP)
    /\ ~IsNone(built)
    /\ EdgesOfGraph(Val(CACHED_GRAPH)) = EdgesOfGraph(Val(built).graph)
    /\ Val(CACHED_ROUTE_STOPS) = Val(built).route_stops
    /\ DOMAIN Val(CACHED_RS_MAP) = {Val(built).route_stops[i].id :
                                       i \in DOMAIN Val(built).route_stops}
    /\ \A i \in DOMAIN Val(built).route_stops :
          Val(CACHED_RS_MAP)[Val(built).route_stops[i].id] = Val(built).route_stops[i]

\* C5: whoever looks at the cache (a build_graph call at its first line, the
\* lifespan, a query) sees no graph at all or the complete triple of one
\* snapshot, app.state.transit_data is unset or that triple, and a build that
\* fails part-way leaves no cached graph.
C5_AtomicTriple ==
    /\ BuildAtRest => CacheEmpty \/ CacheComplete
    /\ ~IsNone(transit_data) =>
          /\ CacheComplete
          /\ EdgesOfGraph(ServedGraph) = EdgesOfGraph(Val(CACHED_GRAPH))
          /\ transit_data[2] = CACHED_ROUTE_STOPS
          /\ transit_data[3] = CACHED_RS_MAP
    /\ IsNone(built) => CacheEmpty

\* an attempt failed and the next one built the complete triple
C5_Witness ==
    /\ pc = "close"
    /\ attempt = 2
    /\ CacheComplete
    /\ DOMAIN Val(CACHED_RS_MAP) # {}

\* C6: the application serves only once a build has completed and
\* app.state.transit_data holds its result; at most 3 attempts are made; a
\* failed attempt leaves nothing cached; after the last failure no query is
\* answered.
C6_StartupContract ==
    /\ pc = "serving" => ~IsNone(transit_data) /\ ~IsNone(built)
    /\ attempt <= 3
    /\ pc = "except" => CacheEmpty
    /\ pc = "failed" => ~Answered

\* C7: the graph the queries share is the graph build_graph produced: the same
\* keys, the same adjacency lists.
C7_GraphUnchanged ==
    (~IsNone(transit_data) /\ ~IsNone(built)) =>
        /\ ServedGraph = Val(built).graph
        /\ CACHED_GRAPH = Some(Val(built).graph)

\* C8: every edge of the graph build_graph produced has weight >= 0.
C8_NonNegativeWeights ==
    ~IsNone(built) => NonNegative(Val(built).graph)

\* C9: a query whose great-circle distance exceeds 200 km (200000
\* metres) is answered "too far" with status 400 after the distance computation
\* alone: no nearby-stop lookup, no search; a distance of 200 km or less is
\* not rejected as too far.
C9_TooFar ==
    Answered =>
        LET r == Val(resp) IN
        /\ haversine(r.from, r.to) > 200000 =>
              r.outcome = "too_far" /\ r.status = 400 /\ r.calls = <<"haversine">>
        /\ haversine(r.from, r.to) <= 200000 => r.outcome # "too_far"

\* a query of 200 km and one metre was rejected
C9_Witness ==
    /\ Answered
    /\ haversine(Val(resp).from, Val(resp).to) = 200001
    /\ Val(resp).outcome = "too_far"

\* the stops within 0.7 km (700 metres) of a point, in the store as it is
StopsNear(p) == {id \in DOMAIN database.stops : haversine(database.stops[id], p) <= 700}

\* the candidates are at most 3 stops of StopsNear(p), and no stop left out is
\* nearer than one taken
NearestOf(cands, p) ==
    /\ Len(cands) <= 3
    /\ Len(cands) = 3 \/ Len(cands) = Cardinality(StopsNear(p))
    /\ \A i \in DOMAIN cands :
          /\ cands[i][1] \in StopsNear(p)
          /\ cands[i][2] = haversine(database.stops[cands[i][1]], p)
          /\ \A j \in DOMAIN cands : cands[i][1] = cands[j][1] => i = j
    /\ \A id \in StopsNear(p) \ {cands[i][1] : i \in DOMAIN cands} :
          \A i \in DOMAIN cands : cands[i][2] <= haversine(database.stops[id], p)

----------------------------------------------------------------------------
(* Claims about the trip assembly (SpecAssemble)                           *)

Grouped == assembly.phase \in {"segments", "raised", "returned"}

RECURSIVE Concat(_)
Concat(seqs) == IF seqs = <<>> THEN <<>> ELSE Head(seqs) \o Concat(Tail(seqs))

\* the positions of the path where the direction id changes
DirectionChanges(path_ids, rs_map) ==
    {k \in 1..(Len(path_ids) - 1) :
        rs_map[path_ids[k]].direction_id # rs_map[path_ids[k + 1]].direction_id}

\* C11: the segments partition the path in order: their concatenation is the
\* path, each is non-empty, the nodes of one segment share one direction id,
\* adjacent segments have different direction ids, there are as many segments
\* as direction changes in the path plus one, and a one-node path gives
\* exactly one segment.
C11_SegmentsPartition ==
    Grouped =>
        LET segs == assembly.segment_ids
            dir(n) == assembly.rs_map[n].direction_id
        IN /\ Concat(segs) = assembly.path_ids
           /\ \A i \in DOMAIN segs :
                 /\ segs[i] # <<>>
                 /\ \A j \in DOMAIN segs[i] : dir(segs[i][j]) = dir(segs[i][1])
           /\ \A i \in 1..(Len(segs) - 1) : dir(segs[i][1]) # dir(segs[i + 1][1])
           /\ Len(segs) =
                 Cardinality(DirectionChanges(assembly.path_ids, assembly.rs_map)) + 1
           /\ Len(assembly.path_ids) = 1 => Len(segs) = 1
           /\ \A i \in DOMAIN segs : \A j \in DOMAIN segs[i] :
                 assembly.segments[i][j] = assembly.rs_map[segs[i][j]]

\* a path of three nodes that changes direction twice: three segments
C11_Witness ==
    /\ Grouped
    /\ Len(assembly.path_ids) = 3
    /\ Len(assembly.segment_ids) = 3

----------------------------------------------------------------------------
(* Claims about the edges of the built graph (Spec)                        *)

Built == ~IsNone(built)
BuiltRows == Range(Val(built).route_stops)
BuiltRow(id) == CHOOSE rs \in BuiltRows : rs.id = id

\* how many times the edge u -> v of weight w is in u's adjacency list
EdgeCount(g, u, v, w) ==
    IF u \in DOMAIN g THEN Cardinality({i \in DOMAIN g[u] : g[u][i] = <<v, w>>}) ELSE 0

\* b is the stop-assignment after a in their direction, by ordinal position
NextInDirection(a, b) ==
    /\ a.direction_id = b.direction_id
    /\ a.order < b.order
    /\ ~\E c \in BuiltRows : /\ c.direction_id = a.direction_id
                              /\ a.order < c.order /\ c.order < b.order

BothKnown(a, b) == ~IsNone(a.distance_from_start) /\ ~IsNone(b.distance_from_start)

\* C12: within a direction the graph has the edge a -> b exactly when b is the
\* stop-assignment after a by ordinal position and both distances from start
\* are known; its weight is distance_from_start(b) - distance_from_start(a)
\* (2 units per metre), it is there once, and no other edge joins two
\* stop-assignments of one direction (none replaces an omitted edge, a
\* direction of a single stop-assignment has none).
C12_RideEdges ==
    Built =>
        \A a \in BuiltRows, b \in BuiltRows :
            a.direction_id = b.direction_id =>
                LET there == {e \in EdgesOfGraph(Val(built).graph) :
                                 e[1] = a.id /\ e[2] = b.id}
                    w == 2 * (Val(b.distance_from_start) - Val(a.distance_from_start))
                IN IF NextInDirection(a, b) /\ BothKnown(a, b)
                   THEN there = {<<a.id, b.id, w>>}
                        /\ EdgeCount(Val(built).graph, a.id, b.id, w) = 1
                   ELSE there = {}

\* the query gave the rows by descending id; one direction has its ride edge
\* and another has three stop-assignments, the middle one of unknown distance
C12_Witness ==
    /\ Built
    /\ Len(Val(built).route_stops) >= 2
    /\ Val(built).route_stops[1].id > Val(built).route_stops[2].id
    /\ \E a \in BuiltRows, b \in BuiltRows :
          NextInDirection(a, b) /\ BothKnown(a, b)
    /\ \E a \in BuiltRows, b \in BuiltRows, c \in BuiltRows :
          /\ NextInDirection(a, b) /\ NextInDirection(b, c)
          /\ IsNone(b.distance_from_start) /\ BothKnown(a, c)

\* every edge a -> b of the built graph, with how often it is there
EdgesBetween(a, b) ==
    {e \in EdgesOfGraph(Val(built).graph) : e[1] = a.id /\ e[2] = b.id}

\* C13: between stop-assignments a and b at distinct stops and of different
\* directions the built graph has the edge a -> b exactly when the two stops
\* are within 300 m, once, with weight distance_km * 3.0 + 0.6 (6 units per
\* metre + 1200), and then it has b -> a with the same weight; between two
\* stop-assignments of one direction there is no edge but the ride edge.
C13_WalkingSymmetric ==
    Built =>
        \A a \in BuiltRows, b \in BuiltRows :
            LET d == haversine(a.stop.pos, b.stop.pos)
                w == 6 * d + 1200
            IN /\ (a.stop_id # b.stop_id /\ a.direction_id # b.direction_id) =>
                    IF d <= 300
                    THEN /\ EdgesBetween(a, b) = {<<a.id, b.id, w>>}
                         /\ EdgeCount(Val(built).graph, a.id, b.id, w) = 1
                         /\ <<b.id, a.id, w>> \in EdgesBetween(b, a)
                    ELSE EdgesBetween(a, b) = {}
               /\ (a.direction_id = b.direction_id /\ EdgesBetween(a, b) # {}) =>
                    NextInDirection(a, b) /\ BothKnown(a, b)
                    /\ Cardinality(EdgesBetween(a, b)) = 1

\* two stops exactly 300 m apart are joined both ways by a walking transfer
C13_Witness ==
    /\ Built
    /\ \E a \in BuiltRows, b \in BuiltRows :
          /\ a.stop_id # b.stop_id
          /\ haversine(a.stop.pos, b.stop.pos) = 300
          /\ <<a.id, b.id, 3000>> \in EdgesBetween(a, b)
          /\ <<b.id, a.id, 3000>> \in EdgesBetween(b, a)

\* C14 as stated: of two stop-assignments at one stop, a -> b is an edge of
\* weight TRANSFER_PENALTY exactly when their directions differ, and no edge
\* at all links two stop-assignments of one direction at one stop.
C14_NoEdgeWithinDirectionAtStop ==
    Built =>
        \A a \in BuiltRows, b \in BuiltRows :
            a.stop_id = b.stop_id =>
                /\ (<<a.id, b.id, TRANSFER_PENALTY>> \in EdgesBetween(a, b))
                       <=> (a.direction_id # b.direction_id)
                /\ (a.direction_id = b.direction_id) => EdgesBetween(a, b) = {}

\* C14: of two stop-assignments a and b at one stop, when their directions
\* differ the graph has the edge a -> b once, with weight TRANSFER_PENALTY, and
\* no other edge a -> b; when their direction is the same the only edge that
\* can join them is the ride edge from one to the next of a direction that
\* calls at the stop twice in a row; no node has an edge to itself.
C14_SameStopEdges ==
    Built =>
        \A a \in BuiltRows, b \in BuiltRows :
            a.stop_id = b.stop_id =>
                IF a.direction_id # b.direction_id
                THEN /\ EdgesBetween(a, b) = {<<a.id, b.id, TRANSFER_PENALTY>>}
                     /\ EdgeCount(Val(built).graph, a.id, b.id, TRANSFER_PENALTY) = 1
                ELSE /\ a.id = b.id => EdgesBetween(a, b) = {}
                     /\ EdgesBetween(a, b) # {} =>
                          /\ NextInDirection(a, b) /\ BothKnown(a, b)
                          /\ EdgesBetween(a, b) =
                               {<<a.id, b.id, 2 * (Val(b.distance_from_start)
                                                   - Val(a.distance_from_start))>>}
                          /\ EdgeCount(Val(built).graph, a.id, b.id,
                                       2 * (Val(b.distance_from_start)
                                            - Val(a.distance_from_start))) = 1

\* one stop with two stop-assignments of one direction and one of another:
\* transfer edges both ways between the directions
C14_Witness ==
    /\ Built
    /\ \E a \in BuiltRows, b \in BuiltRows, c \in BuiltRows :
          /\ a.stop_id = b.stop_id /\ b.stop_id = c.stop_id
          /\ a.id # b.id /\ a.direction_id = b.direction_id
          /\ c.direction_id # a.direction_id
          /\ <<a.id, c.id, TRANSFER_PENALTY>> \in EdgesBetween(a, c)
          /\ <<c.id, a.id, TRANSFER_PENALTY>> \in EdgesBetween(c, a)
          /\ <<a.id, b.id, TRANSFER_PENALTY>> \notin EdgesBetween(a, b)

\* ---------------------------------------------------------------------
\* Claims about the metrics of the assembled trip (SpecAssemble)
\* ---------------------------------------------------------------------

RECURSIVE SumSeq(_)
SumSeq(q) == IF q = <<>> THEN 0 ELSE Head(q) + SumSeq(Tail(q))

\* the segments the loop has been through, and their entries in the trip
SegmentsDone == DOMAIN assembly.acc.route_segments_data
SegmentEntry(i) == assembly.acc.route_segments_data[i]

\* what the claim gives for segment i: metres, 0.001 minutes, price
ExactDistance(i) ==
    LET seg == assembly.segments[i]
        first == Val(seg[1].distance_from_start)
        last == Val(seg[Len(seg)].distance_from_start)
    IN IF first > last THEN first - last ELSE last - first
ExactDuration(i) == ExactDistance(i) * 2 + Len(assembly.segments[i]) * 300
TicketCost(i) ==
    LET ticket_price == assembly.segments[i][1].route.ticket_price
    IN IF IsNone(ticket_price) THEN 0 ELSE Val(ticket_price)

\* x is the multiple of q nearest to exact
Nearest(x, exact, q) == x % q = 0 /\ 2 * x <= 2 * exact + q /\ 2 * exact <= 2 * x + q

\* C15 as stated: the distance and the duration the trip gives for a segment
\* are |distance_from_start(last) - distance_from_start(first)| and
\* distance * 2.0 + nodes * 0.3.
C15_ReportedExact ==
    Grouped =>
        \A i \in SegmentsDone :
            /\ SegmentEntry(i).direction.segment_distance_km = ExactDistance(i)
            /\ SegmentEntry(i).direction.segment_duration_mins = ExactDuration(i)

\* C15: for each segment, the distance the trip gives is
\* |distance_from_start(last) - distance_from_start(first)| rounded to 0.01 km,
\* the duration is distance * 2.0 + nodes * 0.3 rounded to 0.1 minute (the
\* distance unrounded), and the cost is the ticket price of the segment's
\* route, 0 when unset; the running totals add the unrounded distances and
\* durations (and the transfers), and the trip's total cost is the sum of the
\* segment costs.
C15_SegmentMetrics ==
    Grouped =>
        /\ \A i \in SegmentsDone :
              /\ Nearest(SegmentEntry(i).direction.segment_distance_km,
                         ExactDistance(i), 10)
              /\ Nearest(SegmentEntry(i).direction.segment_duration_mins,
                         ExactDuration(i), 100)
              /\ SegmentEntry(i).route.ticket_price = TicketCost(i)
        /\ LET n == Len(assembly.acc.route_segments_data)
               walked(i) ==
                   IF i = 1 THEN 0
                   ELSE haversine(assembly.segments[i - 1][Len(assembly.segments[i - 1])].stop.pos,
                                  assembly.segments[i][1].stop.pos)
               walk_mins(i) ==
                   IF i = 1 THEN 0
                   ELSE Val(SegmentEntry(i).transfer_from_previous).walk_duration_mins
           IN /\ assembly.acc.total_cost = SumSeq([i \in 1..n |-> TicketCost(i)])
              /\ assembly.acc.total_dist_km =
                     SumSeq([i \in 1..n |-> ExactDistance(i) + walked(i)])
              /\ assembly.acc.total_duration_mins =
                     SumSeq([i \in 1..n |-> ExactDuration(i) + walk_mins(i)])
        /\ assembly.phase = "returned" =>
              /\ Val(assembly.trip).route_segments = assembly.acc.route_segments_data
              /\ Len(Val(assembly.trip).route_segments) = Len(assembly.segments)
              /\ Val(assembly.trip).summary.total_cost =
                     SumSeq([i \in DOMAIN assembly.segments |-> TicketCost(i)])

\* the example of the claim: three nodes of one direction, from distance 0 to
\* 5 km, ticket price 10: one segment, 5 km, 10.9 minutes, cost 10
C15_Witness ==
    /\ assembly.phase = "returned"
    /\ Len(assembly.path_ids) = 3
    /\ Len(assembly.segments) = 1
    /\ assembly.rs_map[1].distance_from_start = Some(0)
    /\ assembly.rs_map[3].distance_from_start = Some(5000)
    /\ assembly.rs_map[1].route.ticket_price = Some(10)
    /\ SegmentEntry(1).direction.segment_distance_km = 5000
    /\ SegmentEntry(1).direction.segment_duration_mins = 10900
    /\ SegmentEntry(1).route.ticket_price = 10
    /\ Val(assembly.trip).summary.total_cost = 10

\* the stops a transfer into segment i goes between (i > 1)
PrevLastStop(i) == assembly.segments[i - 1][Len(assembly.segments[i - 1])].stop
FirstStop(i) == assembly.segments[i][1].stop

\* C16: the first segment has no transfer descriptor and every later segment
\* has one, from the last stop of the segment before it to its own first
\* stop; when these are one and the same stop the walk distance and the walk
\* duration are 0, is_same_stop is true and the transfer adds 0 to the total
\* duration; when the two stop ids differ is_same_stop is false.
C16_TransferDescriptor ==
    Grouped =>
        /\ \A i \in SegmentsDone :
              LET t == SegmentEntry(i).transfer_from_previous
              IN IF i = 1 THEN IsNone(t)
                 ELSE /\ ~IsNone(t)
                      /\ Val(t).from_stop = PrevLastStop(i)
                      /\ Val(t).to_stop = FirstStop(i)
                      /\ Val(t).is_same_stop = (PrevLastStop(i).id = FirstStop(i).id)
                      /\ PrevLastStop(i).id = FirstStop(i).id =>
                            /\ Val(t).walk_dist_km = 0
                            /\ Val(t).walk_duration_mins = 0
        /\ LET n == Len(assembly.acc.route_segments_data)
               transfer_mins(i) ==
                   IF i = 1 \/ PrevLastStop(i).id = FirstStop(i).id THEN 0
                   ELSE Val(SegmentEntry(i).transfer_from_previous).walk_duration_mins
           IN assembly.acc.total_duration_mins =
                  SumSeq([i \in 1..n |-> ExactDuration(i) + transfer_mins(i)])

\* a returned trip of two segments that meet at one stop
C16_Witness ==
    /\ assembly.phase = "returned"
    /\ Len(assembly.segments) = 2
    /\ PrevLastStop(2).id = FirstStop(2).id
    /\ Val(SegmentEntry(2).transfer_from_previous).is_same_stop
    /\ Val(SegmentEntry(2).transfer_from_previous).walk_duration_mins = 0
    /\ IsNone(SegmentEntry(1).transfer_from_previous)
    /\ assembly.acc.total_duration_mins = ExactDuration(1) + ExactDuration(2)

\* ---------------------------------------------------------------------
\* Claim about the termination of dijkstra (SpecSearchFair)
\* ---------------------------------------------------------------------

Searching == search.phase \in {"call", "loop"}

\* no node has been expanded twice
ExpandedAtMostOnce ==
    search.phase # "off" => \A n \in SearchNodes : search.expanded[n] <= 1

\* one iteration of the while loop: a recorded cost stays or gets lower, and a
\* popped entry that costs more than its node's recorded cost is dropped with
\* nothing else changed
IterationRelaxesOrSkips ==
    (search.phase = "loop" /\ search'.phase = "loop") =>
        LET top == CHOOSE x \in search.s.pq :
                      \A y \in search.s.pq :
                          x[1] < y[1] \/ (x[1] = y[1] /\ x[2] <= y[2])
        IN /\ \A n \in DOMAIN search.s.dist :
                 /\ n \in DOMAIN search'.s.dist
                 /\ search'.s.dist[n] <= search.s.dist[n]
           /\ \A n \in DOMAIN search'.s.dist :
                 n \notin DOMAIN search.s.dist \/ search'.s.dist[n] = search.s.dist[n]
                 \/ n \in DOMAIN search'.s.prev
           /\ top[1] > search.s.dist[top[2]] =>
                 /\ search'.s.dist = search.s.dist
                 /\ search'.s.prev = search.s.prev
                 /\ search'.s.best_end = search.s.best_end
                 /\ search'.s.best_dist = search.s.best_dist
                 /\ search'.s.pq = search.s.pq \ {top}
                 /\ search'.expanded = search.expanded
           /\ top[1] <= search.s.dist[top[2]] =>
                 search'.expanded[top[2]] = search.expanded[top[2]] + 1

\* C17: on every graph with non-negative weights dijkstra terminates (the
\* frontier empties and the function returns), no node is expanded more than
\* once, a popped entry that costs more than the node's recorded cost is
\* skipped, and a node's recorded cost only ever gets lower.
C17_TerminatesExpandingOnce ==
    /\ []ExpandedAtMostOnce
    /\ [][IterationRelaxesOrSkips]_vars
    /\ <>(~Searching /\ search.s.pq = {})

\* a search that has returned after skipping a stale entry: a node that was a
\* start was reached at a lower cost before its own entry was popped
C17_Witness ==
    /\ search.phase = "done"
    /\ search.skipped >= 1
    /\ \E n \in DOMAIN search.s.start_rs_costs :
          /\ search.s.dist[n] < search.s.start_rs_costs[n]
          /\ search.expanded[n] = 1

\* ---------------------------------------------------------------------
\* Claim about the assembly of the paths the search returns (Spec)
\* ---------------------------------------------------------------------

\* C18: whenever the search returns a path over the built graph, trip
\* assembly completes and the query is answered with a trip, also when a
\* segment of the path begins or ends at a stop-assignment whose distance
\* from start is unknown.
C18_AssemblyCompletes ==
    Ran("rebuild_path") =>
        /\ Val(resp).outcome = "trip"
        /\ Val(resp).status = 200
        /\ ~IsNone(Val(resp).trip)

====
